---- MODULE Spec2Model ----
(***************************************************************************)
(* Model of the Application controller (src/src/operator.rs) and of its    *)
(* workload manager (src/src/deployment.rs).                               *)
(*                                                                         *)
(* The resource store (the Kubernetes API server), the watch stream and    *)
(* the kube-runtime Controller/finalizer helpers are the environment of    *)
(* the program: they are modelled by what the calls in the source do.      *)
(* Every store round trip of a handler is a suspension point and therefore *)
(* one action.                                                             *)
(***************************************************************************)
EXTENDS Integers, FiniteSets, Sequences, TLC

\* ---- bounds of the model ----
MaxEdits == 2     \* user operations on Application objects (create/edit/delete)
MaxEditsWide == 3 \* the same, over a store that never fails a valid request
MaxEditsLock == 1 \* the same, next to an Application the operator found
MaxFaults == 1    \* store round trips that fail although the request is valid
MaxCount == 2     \* the metrics counters saturate here
MaxTasks == 2     \* reconcile futures the runtime can poll at once

\* ---- program constants ----
CUSTOM_APP_FINALIZER == "customapps.per.naess"
RequeueSecs == 5 * 60
Replicas == 2
Conflict == 409

Apps == {"app-1", "app-2"}       \* object identities (namespace, name)
Names == {"a", "b"}              \* values of spec.name
Images == {"nginx:1", "nginx:2"} \* values of spec.image
Slots == 1..MaxTasks

VARIABLES
  obj,      \* store: the Application objects
  wl,       \* store: the Deployments of the namespace, by name
  cache,    \* the controller's reflector cache of the Applications
  sched,    \* the controller's scheduler: one request per identity
  task,     \* the reconcile futures in flight
  last,     \* outcome of the last reconcile the controller finished, per identity
  metrics,  \* Metrics: reconciliations and failures counters
  crashed,  \* a handler panicked
  diag,     \* Diagnostics behind its RwLock, and the guards that are alive
  env       \* what the environment may still do: edits, faults, identities in use

vars == <<obj, wl, cache, sched, task, last, metrics, crashed, diag, env>>

\* ---- data ----
NoStatus == [present |-> FALSE, state |-> "-", deployed |-> FALSE]
ApplicationStatus(state, deployed) ==
  [present |-> TRUE, state |-> state, deployed |-> deployed]

NoObj == [exists |-> FALSE, name |-> "-", image |-> "-", deploy |-> FALSE,
          status |-> NoStatus, finalizers |-> {}, deleting |-> FALSE]
Application(name, image, deploy) ==
  [exists |-> TRUE, name |-> name, image |-> image, deploy |-> deploy,
   status |-> NoStatus, finalizers |-> {}, deleting |-> FALSE]

NoWorkload == [live |-> FALSE, image |-> "-", replicas |-> 0, container |-> "-"]
\* the descriptor create_deployment builds from the spec
Deployment(spec) ==
  [live |-> TRUE, image |-> spec.image, replicas |-> Replicas, container |-> spec.name]

await_change == [requeue |-> FALSE, secs |-> 0]
requeue(secs) == [requeue |-> TRUE, secs |-> secs]

NoRequest == [st |-> "none", secs |-> 0]
Due == [st |-> "due", secs |-> 0]
After(secs) == [st |-> "after", secs |-> secs]

Event(type, reason) == [type |-> type, reason |-> reason]

\* a reconcile future: its position, the identity and the object it was handed,
\* the event of the finalizer helper, the store's answer to its workload call,
\* whether a round trip of it was failed by the store, the events it published,
\* and its result
IdleTask == [pc |-> "idle", id |-> "-", app |-> NoObj, kind |-> "-", ans |-> "-",
             fault |-> FALSE, ev |-> {}, res |-> "-", err |-> "-",
             act |-> await_change]
NoOutcome == [kind |-> "-", deploy |-> FALSE, name |-> "-", image |-> "-",
              ans |-> "-", fault |-> FALSE, ev |-> {}, res |-> "-", err |-> "-",
              act |-> await_change]

Inc(c) == IF c < MaxCount THEN c + 1 ELSE c

\* ---- pure functions of the program ----
was_deployed(app) == IF app.status.present THEN app.status.deployed ELSE FALSE

\* mutant: create is decided by the desired state alone
handle_deployment_desired(app) ==
  IF app.deploy THEN "create"
  ELSE IF was_deployed(app) THEN "delete"
  ELSE "none"

\* the branch handle_deployment takes
handle_deployment(app) ==
  IF was_deployed(app) /\ app.deploy THEN "create"
  ELSE IF was_deployed(app) /\ ~app.deploy THEN "delete"
  ELSE "none"

\* mutant: the status keeps the deployed flag the handler found
new_status_prev(app) == ApplicationStatus("Running", was_deployed(app))

\* the status Application::reconcile writes
new_status(app) == ApplicationStatus("Running", app.deploy)

\* mutant: the deletion marker is not looked at
FinalizerEvent_nomarker(app) ==
  IF CUSTOM_APP_FINALIZER \in app.finalizers THEN "Cleanup" ELSE "AddFinalizer"

\* mutant: Apply is not held back until the finalizer is on the object
FinalizerEvent_applyfirst(app) ==
  IF app.deleting
  THEN (IF CUSTOM_APP_FINALIZER \in app.finalizers THEN "Cleanup" ELSE "Nothing")
  ELSE "Apply"

\* kube_runtime::finalizer: the event chosen for the object handed to reconcile
FinalizerEvent(app) ==
  IF CUSTOM_APP_FINALIZER \in app.finalizers
  THEN (IF app.deleting THEN "Cleanup" ELSE "Apply")
  ELSE (IF app.deleting THEN "Nothing" ELSE "AddFinalizer")

\* mutant: the policy counts the failure but waits for a change
error_policy_await(error, m) ==
  [action |-> await_change, metrics |-> [m EXCEPT !.failures = Inc(@)],
   events |-> {}]

\* mutant: the policy forgets the counter
error_policy_nocount(error, m) ==
  [action |-> requeue(5 * 60), metrics |-> m, events |-> {}]

\* the directive, the counters and the events published by the policy (none:
\* the failure is only logged)
error_policy(error, m) ==
  [action |-> requeue(5 * 60), metrics |-> [m EXCEPT !.failures = Inc(@)],
   events |-> {}]

\* the scheduler keeps one request per identity, the earliest
Schedule(cur, act) ==
  IF act.requeue /\ cur.st = "none" THEN After(act.secs) ELSE cur

\* mutant: requests are never held
Held_never(i) == FALSE

\* Controller::run holds a request while a reconcile of its identity is running
Held(i) == \E s \in Slots : task[s].pc # "idle" /\ task[s].id = i

Busy(s) == task[s].pc # "idle"
FreeSlot == CHOOSE s \in Slots : ~Busy(s) /\ \A r \in Slots : r < s => Busy(r)

\* ---- initial state: Operator::new has returned, the store holds no Application ----
InitController ==
  /\ cache = [i \in Apps |-> NoObj]
  /\ sched = [i \in Apps |-> NoRequest]
  /\ task = [s \in Slots |-> IdleTask]
  /\ last = [i \in Apps |-> NoOutcome]
  /\ metrics = [reconciliations |-> 0, failures |-> 0]
  /\ crashed = FALSE
  /\ diag = [last_event |-> "new", reporter |-> "app-reporter",
             writer |-> 0, readers |-> {}]

InitCommon ==
  /\ obj = [i \in Apps |-> NoObj]
  /\ wl = [n \in Names |-> NoWorkload]
  /\ InitController

\* an Application as an earlier run of the operator left it: with the finalizer,
\* the status of its last Apply and its Deployment
Managed ==
  [Application("a", "nginx:1", TRUE) EXCEPT
     !.status = ApplicationStatus("Running", TRUE),
     !.finalizers = {CUSTOM_APP_FINALIZER}]

\* the operator starts over a store that holds one such Application
InitFound ==
  /\ obj = [i \in Apps |-> IF i = "app-1" THEN Managed ELSE NoObj]
  /\ wl = [n \in Names |-> IF n = Managed.name THEN Deployment(Managed)
                            ELSE NoWorkload]
  /\ InitController

Init ==
  /\ InitCommon
  /\ env = [edits |-> MaxEdits, faults |-> MaxFaults, apps |-> {"app-1"},
            names |-> Names, images |-> Images]

\* ---- the users of the store ----
Spend == [env EXCEPT !.edits = @ - 1]

UserCreate(i, name, image, deploy) ==
  /\ env.edits > 0 /\ i \in env.apps
  /\ name \in env.names /\ image \in env.images
  /\ ~obj[i].exists
  /\ obj' = [obj EXCEPT ![i] = Application(name, image, deploy)]
  /\ env' = Spend
  /\ UNCHANGED <<wl, cache, sched, task, last, metrics, crashed, diag>>

UserEdit(i, image, deploy) ==
  /\ env.edits > 0
  /\ image \in env.images
  /\ obj[i].exists
  /\ <<image, deploy>> # <<obj[i].image, obj[i].deploy>>
  /\ obj' = [obj EXCEPT ![i].image = image, ![i].deploy = deploy]
  /\ env' = Spend
  /\ UNCHANGED <<wl, cache, sched, task, last, metrics, crashed, diag>>

\* a delete request: the store removes an object without finalizers at once and
\* otherwise only sets the deletion marker
UserDelete(i) ==
  /\ env.edits > 0
  /\ obj[i].exists /\ ~obj[i].deleting
  /\ obj' = [obj EXCEPT ![i] = IF obj[i].finalizers = {} THEN NoObj
                                ELSE [obj[i] EXCEPT !.deleting = TRUE]]
  /\ env' = Spend
  /\ UNCHANGED <<wl, cache, sched, task, last, metrics, crashed, diag>>

\* ---- the controller runtime ----
\* the watch delivers the current version of an object (again, when it did
\* before); a version that is an Application triggers a request for it
Notify(i) ==
  /\ ~crashed
  /\ i \in env.apps
  /\ cache' = [cache EXCEPT ![i] = obj[i]]
  /\ sched' = [sched EXCEPT ![i] = IF obj[i].exists THEN Due ELSE @]
  /\ UNCHANGED <<obj, wl, task, last, metrics, crashed, env, diag>>

TimerExpire(i) ==
  /\ ~crashed
  /\ sched[i].st = "after"
  /\ sched' = [sched EXCEPT ![i] = Due]
  /\ UNCHANGED <<obj, wl, cache, task, last, metrics, crashed, env, diag>>

\* a request whose object left the cache is dropped without a reconcile
DropRequest(i) ==
  /\ ~crashed
  /\ sched[i].st = "due" /\ ~cache[i].exists /\ ~Held(i)
  /\ sched' = [sched EXCEPT ![i] = NoRequest]
  /\ UNCHANGED <<obj, wl, cache, task, last, metrics, crashed, env, diag>>

\* first round trip of Application::reconcile (Apply) and Application::cleanup
FirstRoundTrip(kind, app) ==
  CASE kind = "Cleanup" -> "cleanup_delete"
    [] handle_deployment(app) = "create" -> "create"
    [] handle_deployment(app) = "delete" -> "delete"
    [] OTHER -> "patch_status"

\* first pc of the handler the finalizer helper chooses: Apply and Cleanup
\* begin with diagnostics.write().await
FirstPc(app) ==
  CASE FinalizerEvent(app) = "AddFinalizer" -> "add_finalizer"
    [] FinalizerEvent(app) = "Nothing" -> "done"
    [] OTHER -> "write_lock"

\* reconcile up to its first await
Start(i) ==
  /\ ~crashed
  /\ sched[i].st = "due" /\ cache[i].exists
  /\ ~Held(i)
  /\ \E s \in Slots : ~Busy(s)
  /\ LET app == cache[i] IN
       task' = [task EXCEPT ![FreeSlot] =
                 [IdleTask EXCEPT !.pc = FirstPc(app), !.id = i, !.app = app,
                                  !.kind = FinalizerEvent(app),
                                  !.res = IF FinalizerEvent(app) = "Nothing"
                                          THEN "ok" ELSE "-"]]
  /\ metrics' = [metrics EXCEPT !.reconciliations = Inc(@)]
  /\ sched' = [sched EXCEPT ![i] = NoRequest]
  /\ UNCHANGED <<obj, wl, cache, last, crashed, env, diag>>

\* mutant: a failed Cleanup still goes on to the removal of the finalizer
Failed_cleanup_continues(t, err) ==
  IF err = "CleanupFailed" THEN [t EXCEPT !.pc = "remove_finalizer"]
  ELSE [t EXCEPT !.pc = "done", !.res = "err", !.err = err]

\* the handler ends with a failure of the given kind
Failed(t, err) == [t EXCEPT !.pc = "done", !.res = "err", !.err = err]
\* mutant: every successful handler asks for the periodic requeue
Succeeded_requeue(t, act) ==
  [t EXCEPT !.pc = "done", !.res = "ok", !.act = requeue(5 * 60)]

\* the handler ends with success and a directive
Succeeded(t, act) == [t EXCEPT !.pc = "done", !.res = "ok", !.act = act]

\* a round trip fails although the request is valid
Fault(s, err) ==
  /\ env.faults > 0
  /\ task' = [task EXCEPT ![s] = [Failed(task[s], err) EXCEPT !.fault = TRUE]]
  /\ env' = [env EXCEPT !.faults = @ - 1]
  /\ UNCHANGED <<obj, wl, cache, sched, last, metrics, crashed, diag>>

\* finalizer helper, no finalizer and not deleting: a JSON patch that tests the
\* finalizer list the handler saw and adds the finalizer; no Apply in this run
AddFinalizer(s) ==
  /\ ~crashed
  /\ task[s].pc = "add_finalizer"
  /\ LET t == task[s]
         o == obj[t.id]
     IN \/ /\ o.exists /\ o.finalizers = t.app.finalizers
           /\ obj' = [obj EXCEPT ![t.id].finalizers = @ \cup {CUSTOM_APP_FINALIZER}]
           /\ task' = [task EXCEPT ![s] = Succeeded(t, await_change)]
           /\ UNCHANGED <<wl, cache, sched, last, metrics, crashed, env, diag>>
        \/ /\ ~(o.exists /\ o.finalizers = t.app.finalizers)
           /\ task' = [task EXCEPT ![s] = Failed(t, "AddFinalizer")]
           /\ UNCHANGED <<obj, wl, cache, sched, last, metrics, crashed, env, diag>>
        \/ Fault(s, "AddFinalizer")

\* the controller takes the result of a finished reconcile: a failure goes to
\* error_policy, the directive goes to the scheduler
Complete(s) ==
  /\ ~crashed
  /\ task[s].pc = "done"
  /\ LET t == task[s]
         ep == IF t.res = "ok" THEN [action |-> t.act, metrics |-> metrics, events |-> {}]
               ELSE error_policy(t.err, metrics)
         act == ep.action
     IN /\ metrics' = ep.metrics
        /\ sched' = [sched EXCEPT ![t.id] = Schedule(@, act)]
        /\ last' = [last EXCEPT ![t.id] =
                     [kind |-> t.kind, deploy |-> t.app.deploy, name |-> t.app.name,
                      image |-> t.app.image, ans |-> t.ans, fault |-> t.fault,
                      ev |-> t.ev \cup ep.events,
                      res |-> t.res, err |-> t.err, act |-> act]]
        /\ task' = [task EXCEPT ![s] = IdleTask]
  /\ UNCHANGED <<obj, wl, cache, crashed, env, diag>>

\* ---- Diagnostics (operator.rs) ----
\* mutant: the write guard is bound to a variable that lives to the end of the
\* handler
drop_write_bound(d) == d

\* the write guard is a temporary: it is dropped at the end of the statement
drop_write(d) == [d EXCEPT !.writer = 0]

\* mutant: the read guard is bound to a variable that lives to the end of the
\* handler
drop_read_bound(d, s) == d

\* the read guard is a temporary as well
drop_read(d, s) == [d EXCEPT !.readers = @ \ {s}]

\* diagnostics.write().await.last_event = Utc::now(): the future gets the guard
\* when no guard is alive, writes the time and reaches the end of the statement;
\* of the time the model keeps whether it is that of construction or of a handler
WriteLock(s) ==
  /\ ~crashed
  /\ task[s].pc = "write_lock"
  /\ diag.writer = 0 /\ diag.readers = {}
  /\ diag' = drop_write([diag EXCEPT !.writer = s, !.last_event = "handler"])
  /\ task' = [task EXCEPT ![s].pc = "read_lock"]
  /\ UNCHANGED <<obj, wl, cache, sched, last, metrics, crashed, env>>

\* diagnostics.read().await.reporter.clone(): the future gets a guard when no
\* writer has one, and goes on to the first round trip of the handler
ReadLock(s) ==
  /\ ~crashed
  /\ task[s].pc = "read_lock"
  /\ diag.writer = 0
  /\ diag' = drop_read([diag EXCEPT !.readers = @ \cup {s}], s)
  /\ task' = [task EXCEPT ![s].pc = FirstRoundTrip(task[s].kind, task[s].app)]
  /\ UNCHANGED <<obj, wl, cache, sched, last, metrics, crashed, env>>

\* ---- the workload manager (deployment.rs) ----
\* what the store answers to the POST of a Deployment
CreateAnswers(name) ==
  IF wl[name].live THEN {[kind |-> "Api", code |-> Conflict, reason |-> "AlreadyExists"]}
  ELSE {[kind |-> "Ok", code |-> 201, reason |-> "Created"]}
\* answers of a store that rejects or loses the request
FaultAnswers == {[kind |-> "Api", code |-> 403, reason |-> "Forbidden"],
                 [kind |-> "Transport", code |-> 0, reason |-> "Transport"]}

\* mutant: every Api error is returned to the caller
create_match_strict(answer) ==
  CASE answer.kind = "Ok" -> "continue"
    [] OTHER -> "return_err"

\* the match on the result of deployments.create
create_match(answer) ==
  CASE answer.kind = "Ok" -> "continue"
    [] answer.kind = "Api" -> (IF answer.code = Conflict THEN "continue" ELSE "panic")
    [] OTHER -> "return_err"

\* mutant: a Deployment that exists is replaced by the new descriptor
create_effect_replace(w, spec, answer) ==
  IF answer.kind = "Ok" \/ answer.code = Conflict
  THEN [w EXCEPT ![spec.name] = Deployment(spec)] ELSE w

\* the Deployments after deployments.create got the answer: a POST that is
\* accepted stores the descriptor, any other answer leaves the store as it was
create_effect(w, spec, answer) ==
  IF answer.kind = "Ok" THEN [w EXCEPT ![spec.name] = Deployment(spec)] ELSE w

\* create_deployment up to the answer of deployments.create
CreatePost(s) ==
  /\ ~crashed
  /\ task[s].pc = "create"
  /\ LET t == task[s]
         spec == t.app
     IN \E a \in CreateAnswers(spec.name) \cup FaultAnswers :
          /\ a \in FaultAnswers => env.faults > 0
          /\ env' = IF a \in FaultAnswers THEN [env EXCEPT !.faults = @ - 1] ELSE env
          /\ wl' = create_effect(wl, spec, a)
          /\ task' = [task EXCEPT ![s] =
               CASE create_match(a) = "continue" ->
                      [t EXCEPT !.pc = "get", !.ans = a.reason,
                                !.fault = a \in FaultAnswers]
                 [] create_match(a) = "panic" ->
                      [t EXCEPT !.pc = "panicked", !.ans = a.reason,
                                !.fault = a \in FaultAnswers]
                 [] OTHER -> [Failed(t, "ApplyFailed") EXCEPT
                                !.ans = a.reason, !.fault = a \in FaultAnswers]]
          /\ crashed' = (create_match(a) = "panic")
  /\ UNCHANGED <<obj, cache, sched, last, metrics, diag>>

\* create_deployment: deployments.get_opt
CreateGet(s) ==
  /\ ~crashed
  /\ task[s].pc = "get"
  /\ \/ /\ task' = [task EXCEPT ![s].pc = IF wl[task[s].app.name].live
                                           THEN "publish_running"
                                           ELSE "publish_failed"]
        /\ UNCHANGED <<obj, wl, cache, sched, last, metrics, crashed, env, diag>>
     \/ Fault(s, "ApplyFailed")

\* mutant: the event is not published
Publish_skipped(s, event, next, err) ==
  \/ /\ task' = [task EXCEPT ![s].pc = next]
     /\ UNCHANGED <<obj, wl, cache, sched, last, metrics, crashed, env, diag>>
  \/ Fault(s, err)

\* recorder.publish of one event, then on to the next round trip
Publish(s, event, next, err) ==
  \/ /\ task' = [task EXCEPT ![s].ev = @ \cup {event}, ![s].pc = next]
     /\ UNCHANGED <<obj, wl, cache, sched, last, metrics, crashed, env, diag>>
  \/ Fault(s, err)

\* create_deployment: the event after get_opt
PublishGot(s) ==
  /\ ~crashed
  /\ \/ /\ task[s].pc = "publish_running"
        /\ Publish(s, Event("Normal", "RunningApplication"), "publish_creating",
                   "ApplyFailed")
     \/ /\ task[s].pc = "publish_failed"
        /\ Publish(s, Event("Warning", "FailedApplication"), "publish_creating",
                   "ApplyFailed")

\* handle_deployment: the event after create_deployment
PublishCreating(s) ==
  /\ ~crashed
  /\ task[s].pc = "publish_creating"
  /\ Publish(s, Event("Normal", "CreatingDeployment"), "patch_status", "ApplyFailed")

\* cleanup_deployment: deployments.delete(...).await? and Ok(())
cleanup_deployment(s, next, err) ==
  LET t == task[s]
      name == t.app.name
  IN \/ /\ wl[name].live
        /\ wl' = [wl EXCEPT ![name] = NoWorkload]
        /\ task' = [task EXCEPT ![s] = [t EXCEPT !.pc = next, !.ans = "Deleted"]]
        /\ UNCHANGED <<obj, cache, sched, last, metrics, crashed, env, diag>>
     \/ /\ ~wl[name].live
        /\ task' = [task EXCEPT ![s] = [Failed(t, err) EXCEPT !.ans = "NotFound"]]
        /\ UNCHANGED <<obj, wl, cache, sched, last, metrics, crashed, env, diag>>
     \/ Fault(s, err)

\* handle_deployment: the delete branch
Delete(s) ==
  /\ ~crashed
  /\ task[s].pc = "delete"
  /\ cleanup_deployment(s, "publish_deleting", "ApplyFailed")

PublishDeleting(s) ==
  /\ ~crashed
  /\ task[s].pc = "publish_deleting"
  /\ Publish(s, Event("Normal", "DeletingDeployment"), "patch_status", "ApplyFailed")

\* Application::reconcile: the status patch and the directive
PatchStatus(s) ==
  /\ ~crashed
  /\ task[s].pc = "patch_status"
  /\ LET t == task[s]
     IN \/ /\ obj[t.id].exists
           /\ obj' = [obj EXCEPT ![t.id].status = new_status(t.app)]
           /\ task' = [task EXCEPT ![s] = Succeeded(t, requeue(5 * 60))]
           /\ UNCHANGED <<wl, cache, sched, last, metrics, crashed, env, diag>>
        \/ /\ ~obj[t.id].exists
           /\ task' = [task EXCEPT ![s] = Failed(t, "ApplyFailed")]
           /\ UNCHANGED <<obj, wl, cache, sched, last, metrics, crashed, env, diag>>
        \/ Fault(s, "ApplyFailed")

\* Application::cleanup: cleanup_deployment
CleanupDelete(s) ==
  /\ ~crashed
  /\ task[s].pc = "cleanup_delete"
  /\ cleanup_deployment(s, "publish_delete_app", "CleanupFailed")

\* Application::cleanup: the event and Ok(Action::await_change())
PublishDeleteApp(s) ==
  /\ ~crashed
  /\ task[s].pc = "publish_delete_app"
  /\ Publish(s, Event("Normal", "DeleteApplication"), "remove_finalizer",
             "CleanupFailed")

\* finalizer helper after a successful Cleanup: a JSON patch that tests for the
\* finalizer and removes it; the store then removes an object that is marked
\* for deletion and has no finalizer left
RemoveFinalizer(s) ==
  /\ ~crashed
  /\ task[s].pc = "remove_finalizer"
  /\ LET t == task[s]
         o == obj[t.id]
         left == o.finalizers \ {CUSTOM_APP_FINALIZER}
     IN \/ /\ o.exists /\ CUSTOM_APP_FINALIZER \in o.finalizers
           /\ obj' = [obj EXCEPT ![t.id] = IF o.deleting /\ left = {} THEN NoObj
                                           ELSE [o EXCEPT !.finalizers = left]]
           /\ task' = [task EXCEPT ![s] = Succeeded(t, await_change)]
           /\ UNCHANGED <<wl, cache, sched, last, metrics, crashed, env, diag>>
        \/ /\ ~(o.exists /\ CUSTOM_APP_FINALIZER \in o.finalizers)
           /\ task' = [task EXCEPT ![s] = Failed(t, "RemoveFinalizer")]
           /\ UNCHANGED <<obj, wl, cache, sched, last, metrics, crashed, env, diag>>
        \/ Fault(s, "RemoveFinalizer")

Next ==
  \/ \E i \in Apps, n \in Names, im \in Images, d \in BOOLEAN : UserCreate(i, n, im, d)
  \/ \E i \in Apps, im \in Images, d \in BOOLEAN : UserEdit(i, im, d)
  \/ \E i \in Apps : UserDelete(i)
  \/ \E i \in Apps : Notify(i)
  \/ \E i \in Apps : TimerExpire(i)
  \/ \E i \in Apps : DropRequest(i)
  \/ \E i \in Apps : Start(i)
  \/ \E s \in Slots : AddFinalizer(s)
  \/ \E s \in Slots : WriteLock(s)
  \/ \E s \in Slots : ReadLock(s)
  \/ \E s \in Slots : CreatePost(s)
  \/ \E s \in Slots : CreateGet(s)
  \/ \E s \in Slots : PublishGot(s)
  \/ \E s \in Slots : PublishCreating(s)
  \/ \E s \in Slots : Delete(s)
  \/ \E s \in Slots : PublishDeleting(s)
  \/ \E s \in Slots : PatchStatus(s)
  \/ \E s \in Slots : CleanupDelete(s)
  \/ \E s \in Slots : PublishDeleteApp(s)
  \/ \E s \in Slots : RemoveFinalizer(s)
  \/ \E s \in Slots : Complete(s)

Spec == Init /\ [][Next]_vars

\* ---- fair scheduling over a store that never fails a valid request ----
InitLive ==
  /\ InitCommon
  /\ env = [edits |-> MaxEditsWide, faults |-> 0, apps |-> {"app-1"},
            names |-> Names, images |-> Images]

\* one step of the reconcile future in slot s, or the controller taking its result
TaskStep(s) ==
  \/ AddFinalizer(s) \/ WriteLock(s) \/ ReadLock(s)
  \/ CreatePost(s) \/ CreateGet(s) \/ PublishGot(s)
  \/ PublishCreating(s) \/ Delete(s) \/ PublishDeleting(s) \/ PatchStatus(s)
  \/ CleanupDelete(s) \/ PublishDeleteApp(s) \/ RemoveFinalizer(s) \/ Complete(s)

Fairness ==
  /\ \A i \in Apps : WF_vars(Notify(i)) /\ WF_vars(TimerExpire(i))
                      /\ WF_vars(DropRequest(i)) /\ WF_vars(Start(i))
  /\ \A s \in Slots : WF_vars(TaskStep(s))

LiveSpec == InitLive /\ [][Next]_vars /\ Fairness

\* ---- two Applications of one namespace that name the same workload, over a
\* store that never fails a valid request; one of them was created before the
\* operator started ----
InitTwo ==
  /\ InitFound
  /\ env = [edits |-> MaxEdits, faults |-> 0, apps |-> Apps,
            names |-> {"a"}, images |-> {"nginx:1"}]

TwoSpec == InitTwo /\ [][Next]_vars

\* ---- the same with one user operation less ----
InitLock ==
  /\ InitFound
  /\ env = [edits |-> MaxEditsLock, faults |-> 0, apps |-> Apps,
            names |-> {"a"}, images |-> {"nginx:1"}]

LockSpec == InitLock /\ [][Next]_vars

\* ---- properties ----
ApplyPcs == {"create", "get", "publish_running", "publish_failed", "publish_creating",
             "delete", "publish_deleting", "patch_status"}
CleanupPcs == {"cleanup_delete", "publish_delete_app", "remove_finalizer"}
\* the handler is at one of its two statements on Diagnostics
LockPcs == {"write_lock", "read_lock"}
HasFinalizer(o) == CUSTOM_APP_FINALIZER \in o.finalizers

\* C1: at most one reconcile future per identity is in flight at any time, also
\* while further triggers for that identity arrive
C1_OneInFlight ==
  \A s1 \in Slots, s2 \in Slots :
    (s1 # s2 /\ Busy(s1) /\ Busy(s2)) => task[s1].id # task[s2].id
\* a second trigger is due while the reconcile of the identity is in flight
C1_Witness ==
  \E s \in Slots : Busy(s) /\ task[s].pc \in ApplyPcs /\ sched[task[s].id] = Due

\* C2 (as claimed): an object with a deletion marker and the finalizer is
\* eventually removed from the store, whether or not its workload exists
C2_EventuallyRemoved ==
  \A i \in Apps :
    (obj[i].exists /\ obj[i].deleting /\ HasFinalizer(obj[i])) ~> ~obj[i].exists

\* C3 (as claimed): cleanup_deployment of an absent workload returns success
C3_DeleteAbsentSucceeds ==
  \A s \in Slots : task[s].ans = "NotFound" => task[s].res # "err"

\* C4: a create that the store answers with AlreadyExists goes on as a success:
\* it fails only if a later round trip is failed by the store, the handler does
\* not panic, and the workload of that name stays live
C4_CreateTwice ==
  \A s \in Slots :
    task[s].ans = "AlreadyExists" =>
      /\ task[s].pc # "panicked"
      /\ task[s].res = "err" => task[s].fault
      /\ task[s].pc = "get" => wl[task[s].app.name].live
\* the second create with the same arguments has returned, the Apply succeeded
C4_Witness ==
  \E s \in Slots :
    /\ task[s].ans = "AlreadyExists" /\ task[s].pc = "done" /\ task[s].res = "ok"
    /\ wl[task[s].app.name] = Deployment(task[s].app)
    /\ Event("Normal", "CreatingDeployment") \in task[s].ev

\* C5 (as claimed): with no reconcile in flight and the last reconcile a
\* successful Apply or Cleanup, the workload exists iff that was an Apply that
\* observed deploy=true
C5_ExistsIffDeployed ==
  \A i \in Apps :
    (~Held(i) /\ last[i].res = "ok" /\ last[i].kind \in {"Apply", "Cleanup"}) =>
      (wl[last[i].name].live <=> (last[i].kind = "Apply" /\ last[i].deploy))

\* C6 (as claimed): an object that stays without deletion marker converges: the
\* workload exists exactly when spec.deploy and status.deployed equals spec.deploy
Converged(i) ==
  /\ wl[obj[i].name].live <=> obj[i].deploy
  /\ obj[i].status.present /\ obj[i].status.deployed = obj[i].deploy
C6_Converges ==
  \A i \in Apps :
    <>[](obj[i].exists /\ ~obj[i].deleting) => <>[](obj[i].exists /\ Converged(i))

\* C7: the Cleanup handler runs only for an object handed to reconcile with both
\* the deletion marker and the finalizer, every such object gets Cleanup and no
\* other, and when the Cleanup reconcile has returned success the finalizer is
\* absent from the stored object
C7_CleanupOnlyWhenDeleting ==
  \A s \in Slots :
    /\ task[s].pc \in CleanupPcs => task[s].kind = "Cleanup"
    /\ (Busy(s) /\ task[s].kind = "Cleanup") <=>
         (Busy(s) /\ task[s].app.deleting /\ HasFinalizer(task[s].app))
    /\ (task[s].pc = "done" /\ task[s].kind = "Cleanup" /\ task[s].res = "ok") =>
         ~HasFinalizer(obj[task[s].id])
\* a Cleanup has returned success
C7_Witness ==
  \E s \in Slots :
    /\ task[s].pc = "done" /\ task[s].kind = "Cleanup" /\ task[s].res = "ok"
    /\ Event("Normal", "DeleteApplication") \in task[s].ev

\* C8: the finalizer leaves an object, and an object with the finalizer leaves
\* the store, only in the step that follows a successful Cleanup handler of a
\* reconcile that was handed the object with its deletion marker; a step in
\* which a handler fails changes no object
C8_CleanupBeforeDelete ==
  [][\A i \in Apps :
       /\ ((HasFinalizer(obj[i]) /\ ~HasFinalizer(obj'[i])) =>
            \E s \in Slots :
              /\ task[s].id = i /\ task[s].kind = "Cleanup" /\ task[s].app.deleting
              /\ task[s].pc = "remove_finalizer"
              /\ Event("Normal", "DeleteApplication") \in task[s].ev
              /\ task'[s].pc = "done" /\ task'[s].res = "ok")
       /\ ((obj[i].exists /\ ~obj'[i].exists) =>
            (~HasFinalizer(obj[i]) \/ obj[i].deleting))
       /\ (\A s \in Slots :
             (task[s].id = i /\ task[s].res # "err" /\ task'[s].res = "err") =>
               obj'[i] = obj[i])]_vars
\* the finalizer was removed after a Cleanup and the object left the store
C8_Witness ==
  \E s \in Slots :
    /\ task[s].pc = "done" /\ task[s].kind = "Cleanup" /\ task[s].res = "ok"
    /\ ~obj[task[s].id].exists /\ task[s].ans = "Deleted"

\* C9: when an Apply has returned success the stored status is
\* {state: Running, deployed: spec.deploy} for the spec the Apply was handed
C9_StatusAfterApply ==
  \A s \in Slots :
    (task[s].pc = "done" /\ task[s].kind = "Apply" /\ task[s].res = "ok") =>
      obj[task[s].id].status =
        [present |-> TRUE, state |-> "Running", deployed |-> task[s].app.deploy]
\* an Apply that found deployed=true and deploy=false has returned success
C9_Witness ==
  \E s \in Slots :
    /\ task[s].pc = "done" /\ task[s].kind = "Apply" /\ task[s].res = "ok"
    /\ task[s].app.status.present /\ task[s].app.status.deployed
    /\ ~task[s].app.deploy /\ task[s].ans = "Deleted"

\* C10: when the controller takes a failed reconcile, of any kind, the failures
\* counter goes up by one and the directive is Requeue(5 minutes)
C10_ErrorPolicy ==
  [][\A s \in Slots :
       (task[s].pc = "done" /\ task[s].res = "err" /\ task'[s].pc = "idle") =>
         /\ metrics.failures < MaxCount => metrics'.failures = metrics.failures + 1
         /\ last'[task[s].id].res = "err"
         /\ last'[task[s].id].act = [requeue |-> TRUE, secs |-> RequeueSecs]
         /\ sched'[task[s].id].st # "none"]_vars
\* failures of a Cleanup and of an Apply have both been counted
C10_Witness ==
  \E i \in Apps :
    /\ last[i].res = "err" /\ last[i].err = "CleanupFailed"
    /\ metrics.failures = 2 /\ sched[i] = After(RequeueSecs)

\* C11 (as claimed): a create that the store rejects with an answer other than
\* AlreadyExists ends the Apply with a failure for the Error Policy, never a panic
C11_CreateFailurePropagates ==
  \A s \in Slots :
    task[s].ans \in {"Forbidden", "Transport"} =>
      (task[s].pc = "done" /\ task[s].res = "err" /\ ~crashed)

\* C12 (as claimed): a failed Apply or Cleanup has published a Warning event
C12_FailureWarns ==
  \A i \in Apps :
    (last[i].res = "err" /\ last[i].kind \in {"Apply", "Cleanup"}) =>
      \E e \in last[i].ev : e.type = "Warning"
\* C12 (amended): a failed reconcile is counted in failures, and the only events
\* on the object are those its handler published before it failed; none of
\* them is a Warning, except FailedApplication of create_deployment
C12_FailureCountedOnly ==
  \A i \in Apps :
    last[i].res = "err" =>
      /\ metrics.failures >= 1
      /\ \A e \in last[i].ev : e.type = "Warning" => e.reason = "FailedApplication"
      /\ last[i].ev \subseteq {Event("Normal", "RunningApplication"),
                               Event("Warning", "FailedApplication"),
                               Event("Normal", "CreatingDeployment"),
                               Event("Normal", "DeletingDeployment"),
                               Event("Normal", "DeleteApplication")}
\* an Apply failed after create_deployment had published its event
C12_Witness ==
  \E i \in Apps :
    /\ last[i].res = "err" /\ last[i].kind = "Apply" /\ metrics.failures >= 1
    /\ last[i].ev = {Event("Normal", "RunningApplication")}

SpecOf(o) == <<o.name, o.image, o.deploy>>

\* C13 (as claimed): one Apply per observed spec change: an Apply starts only
\* for a spec that differs from the spec the previous Apply was handed
C13_OneApplyPerSpecChange ==
  [][\A s \in Slots :
       (task[s].pc = "idle" /\ task'[s].kind = "Apply"
        /\ last[task'[s].id].kind = "Apply") =>
         SpecOf(task'[s].app) # <<last[task'[s].id].name, last[task'[s].id].image,
                                  last[task'[s].id].deploy>>]_vars
\* C13 (amended): every reconcile of an object handed over with the finalizer and
\* without deletion marker is an Apply, whether or not its spec changed; while an
\* Apply runs, and after a successful Apply, the stored object has the finalizer
C13_ApplyHasFinalizer ==
  /\ \A s \in Slots :
       /\ (Busy(s) /\ HasFinalizer(task[s].app) /\ ~task[s].app.deleting) =>
            task[s].kind = "Apply"
       /\ (Busy(s) /\ task[s].kind = "Apply") =>
            /\ HasFinalizer(task[s].app) /\ ~task[s].app.deleting
            /\ obj[task[s].id].exists /\ HasFinalizer(obj[task[s].id])
  /\ \A i \in Apps :
       (last[i].kind = "Apply" /\ last[i].res = "ok" /\ ~Held(i)) =>
         (obj[i].exists /\ HasFinalizer(obj[i]))
\* a second Apply for the spec of the previous successful Apply is in flight
C13_Witness ==
  \E s \in Slots :
    /\ task[s].kind = "Apply" /\ task[s].pc = "create"
    /\ last[task[s].id].kind = "Apply" /\ last[task[s].id].res = "ok"
    /\ SpecOf(task[s].app) = <<last[task[s].id].name, last[task[s].id].image,
                               last[task[s].id].deploy>>
    /\ HasFinalizer(obj[task[s].id])

\* C14: a successful Apply returns Requeue(5 minutes): when the controller takes
\* it, a request for the object is due or waits for that timer, and a waiting
\* timer only ends by becoming due. A successful Cleanup returns AwaitChange:
\* taking it arms no timer
C14_Directives ==
  [][/\ \A s \in Slots :
          (task[s].pc = "done" /\ task[s].res = "ok" /\ task'[s].pc = "idle") =>
            /\ task[s].kind = "Apply" =>
                 /\ last'[task[s].id].act = [requeue |-> TRUE, secs |-> RequeueSecs]
                 /\ sched'[task[s].id] \in {Due, After(RequeueSecs)}
            /\ task[s].kind = "Cleanup" =>
                 /\ last'[task[s].id].act = [requeue |-> FALSE, secs |-> 0]
                 /\ sched'[task[s].id] = sched[task[s].id]
                 /\ sched'[task[s].id].st # "after"
     /\ \A i \in Apps :
          (sched[i].st = "after" /\ sched'[i] # sched[i]) => sched'[i] = Due]_vars
\* the controller took a successful Apply and the requeue timer is waiting
C14_Witness ==
  \E i \in Apps :
    /\ last[i].kind = "Apply" /\ last[i].res = "ok" /\ ~Held(i)
    /\ sched[i] = After(RequeueSecs)

CreatePcs == {"create", "get", "publish_running", "publish_failed",
              "publish_creating", "panicked"}
DeletePcs == {"delete", "publish_deleting"}
PrevDeployed(o) == o.status.present /\ o.status.deployed

\* C15: in an Apply, create is called exactly when spec.deploy and the previous
\* status.deployed are both true, delete exactly when spec.deploy is false and
\* the previous status.deployed is true, and with previous status.deployed false
\* or absent no workload call is made and only the status is patched
C15_WorkloadAction ==
  \A s \in Slots :
    (Busy(s) /\ task[s].kind = "Apply") =>
      LET prev == PrevDeployed(task[s].app)
          want == task[s].app.deploy
          past == task[s].pc = "patch_status"
                  \/ (task[s].pc = "done" /\ task[s].res = "ok")
      IN /\ task[s].pc \in CreatePcs => (prev /\ want)
         /\ task[s].pc \in DeletePcs => (prev /\ ~want)
         /\ ~prev => /\ task[s].pc \in LockPcs \cup {"patch_status", "done"}
                     /\ task[s].ans = "-" /\ task[s].ev = {}
         /\ (prev /\ want /\ past) => task[s].ans \in {"Created", "AlreadyExists"}
         /\ (prev /\ ~want /\ past) => task[s].ans = "Deleted"
\* the first Apply of a new object with deploy=true has succeeded: the status
\* says deployed, no create was made and no workload exists
C15_Witness ==
  \E s \in Slots :
    /\ task[s].pc = "done" /\ task[s].kind = "Apply" /\ task[s].res = "ok"
    /\ ~task[s].app.status.present /\ task[s].app.deploy /\ task[s].ans = "-"
    /\ obj[task[s].id].status = ApplicationStatus("Running", TRUE)
    /\ ~wl[task[s].app.name].live

\* C16 (as claimed): a workload call or event publish of an Apply that fails
\* ends the Apply with a failure returned to the controller, and no step of an
\* Apply before its status patch changes the stored status
C16_FailedApplyKeepsStatus ==
  [][\A s \in Slots :
       (task[s].kind = "Apply" /\ task[s].pc \in (CreatePcs \cup DeletePcs)) =>
         /\ obj'[task[s].id].status = obj[task[s].id].status
         /\ ((task'[s].fault /\ ~task[s].fault)
             \/ (task'[s].ans = "NotFound" /\ task[s].ans # "NotFound")) =>
              /\ task'[s].pc = "done" /\ task'[s].res = "err"
              /\ task'[s].err = "ApplyFailed"
              /\ ~crashed']_vars

\* C17 (as claimed): a handler that failed after its workload call took effect
\* is run again on the unchanged object, with no failure of the store in the
\* second run: the second run succeeds and ends in the state an uninterrupted
\* run ends in
C17_RerunRecovers ==
  \A s \in Slots :
    LET t == task[s]
        l == last[t.id]
    IN (/\ t.pc = "done" /\ t.kind \in {"Apply", "Cleanup"} /\ ~t.fault
        /\ l.kind = t.kind /\ l.res = "err" /\ l.fault
        /\ l.ans \in {"Created", "Deleted"}
        /\ SpecOf(t.app) = <<l.name, l.image, l.deploy>>
        /\ t.kind = "Apply" => PrevDeployed(t.app)) =>
         /\ t.res = "ok"
         /\ t.kind = "Apply" =>
              /\ obj[t.id].status = ApplicationStatus("Running", t.app.deploy)
              /\ wl[t.app.name].live <=> t.app.deploy
         /\ t.kind = "Cleanup" => ~HasFinalizer(obj[t.id])

\* C18 (as claimed): every successful Apply and every successful Cleanup has
\* published an event
C18_EverySuccessPublishes ==
  \A s \in Slots :
    (task[s].pc = "done" /\ task[s].res = "ok"
     /\ task[s].kind \in {"Apply", "Cleanup"}) => task[s].ev # {}
\* C18 (amended): a successful Apply that called create has published
\* CreatingDeployment, one that called delete has published DeletingDeployment,
\* after the delete and before the status patch, and one without workload call
\* has published nothing; a successful Cleanup has published DeleteApplication
\* after the delete
C18_EventsOfSuccess ==
  \A s \in Slots :
    LET t == task[s]
        success == t.pc = "done" /\ t.res = "ok"
    IN /\ (success /\ t.kind = "Apply") =>
            /\ t.ans \in {"Created", "AlreadyExists"} =>
                 Event("Normal", "CreatingDeployment") \in t.ev
            /\ t.ans = "Deleted" => t.ev = {Event("Normal", "DeletingDeployment")}
            /\ t.ans = "-" => t.ev = {}
       /\ Event("Normal", "DeletingDeployment") \in t.ev =>
            (t.ans = "Deleted" /\ t.pc \in {"patch_status", "done"})
       /\ t.pc \in DeletePcs => t.ev = {}
       /\ (success /\ t.kind = "Cleanup") =>
            t.ev = {Event("Normal", "DeleteApplication")}
       /\ Event("Normal", "DeleteApplication") \in t.ev =>
            (t.ans = "Deleted" /\ t.kind = "Cleanup")
\* an Apply without workload call has succeeded and has published no event
C18_Witness ==
  \E s \in Slots :
    /\ task[s].pc = "done" /\ task[s].res = "ok" /\ task[s].kind = "Apply"
    /\ task[s].ans = "-" /\ task[s].ev = {}
    /\ obj[task[s].id].status = ApplicationStatus("Running", task[s].app.deploy)

\* C19: a create for a name whose workload exists leaves every workload as it
\* is, whatever spec.image says; a workload changes only by being created, with
\* 2 replicas and one container of the spec's image, or by being deleted
C19_CreateLeavesExisting ==
  [][/\ \A n \in Names : (wl[n].live /\ wl'[n].live) => wl'[n] = wl[n]
     /\ \A s \in Slots :
          (task[s].pc = "create" /\ task'[s].pc # "create") =>
            IF wl[task[s].app.name].live
            THEN wl' = wl /\ task'[s].ans # "Created"
            ELSE task'[s].ans = "Created" =>
                   wl' = [wl EXCEPT ![task[s].app.name] =
                           [live |-> TRUE, image |-> task[s].app.image,
                            replicas |-> 2, container |-> task[s].app.name]]]_vars
\* an Apply that observed another image than the one the workload was created
\* with has called create and succeeded; the workload has its first image
C19_Witness ==
  \E s \in Slots :
    /\ task[s].pc = "done" /\ task[s].res = "ok" /\ task[s].ans = "AlreadyExists"
    /\ wl[task[s].app.name].live
    /\ wl[task[s].app.name].image # task[s].app.image

\* the last reconcile of j was a successful Apply that created workload n, and
\* the stored object of j still asks for it
Requires(j, n) ==
  /\ last[j].kind = "Apply" /\ last[j].res = "ok" /\ last[j].ans = "Created"
  /\ last[j].name = n
  /\ obj[j].exists /\ ~obj[j].deleting /\ obj[j].deploy /\ obj[j].name = n

\* C20 (as claimed): no Apply or Cleanup of one Application deletes the workload
\* that another Application created and still requires
C20_NoForeignDelete ==
  [][\A s \in Slots, j \in Apps, n \in Names :
       (Busy(s) /\ task[s].id # j /\ task[s].pc \in {"delete", "cleanup_delete"}
        /\ task'[s].pc # task[s].pc /\ Requires(j, n)) =>
         (wl[n].live => wl'[n].live)]_vars


\* the pcs at which a handler waits for the answer of the store
RoundTripPcs == {"add_finalizer", "create", "get", "publish_running", "publish_failed",
                 "publish_creating", "delete", "publish_deleting", "patch_status",
                 "cleanup_delete", "publish_delete_app", "remove_finalizer"}
\* the future in slot s asks for a guard that the future in slot t keeps from it
WaitsFor(s, t) ==
  \/ task[s].pc = "write_lock" /\ (diag.writer = t \/ t \in diag.readers)
  \/ task[s].pc = "read_lock" /\ diag.writer = t

\* C21: reconciles of distinct identities never block one another: a handler
\* that waits for the store, or has returned, holds no guard of Diagnostics; no
\* two reconciles wait for each other, and none for itself; and while a
\* reconcile waits for the store, every other identity that has a request can
\* start its reconcile and every reconcile of another identity can take its
\* next step, up to the controller taking its result
C21_NoBlocking ==
  /\ \A s \in Slots :
       task[s].pc \in RoundTripPcs \cup {"done", "idle"} =>
         diag.writer # s /\ s \notin diag.readers
  /\ \A s \in Slots, t \in Slots : ~(WaitsFor(s, t) /\ WaitsFor(t, s))
  /\ \A s \in Slots :
       task[s].pc \in RoundTripPcs =>
         \A j \in Apps \ {task[s].id} :
           /\ (sched[j].st = "due" /\ cache[j].exists /\ ~Held(j)) => ENABLED Start(j)
           /\ \A t \in Slots : (Busy(t) /\ task[t].id = j) => ENABLED TaskStep(t)
\* one reconcile waits for the store while the reconcile of another identity
\* has run a whole Apply, with the create, both events and the status patch,
\* and waits for the controller to take its result
C21_Witness ==
  \E s \in Slots, t \in Slots :
    /\ task[s].pc \in RoundTripPcs /\ task[t].id # task[s].id
    /\ task[t].pc = "done" /\ task[t].kind = "Apply" /\ task[t].res = "ok"
    /\ task[t].ans \in {"Created", "AlreadyExists"}
    /\ task[t].ev = {Event("Normal", "RunningApplication"),
                     Event("Normal", "CreatingDeployment")}

====
